---- MODULE Spec2Model ----
(***************************************************************************)
(* Model of mod_git_commit_dates.py: the ModGitCommitDates object (loaded  *)
(* history, pending modified timestamps), its operations modify_dates,     *)
(* print_mod_timestamps and update, the rewrite instructions update builds *)
(* and the files and external commands it issues.                          *)
(*                                                                         *)
(* Python lists are objects with identity: the model keeps a heap of list  *)
(* objects, and the object's fields _dates and _dates_mod hold references  *)
(* into it, so that a callback that changes its argument in place, and     *)
(* list.sort(), act on the object they are handed.  Timestamps are whole   *)
(* days.                                                                   *)
(***************************************************************************)
EXTENDS Integers, Sequences, FiniteSets, TLC

\* ---- bounds of the model ----
MaxCommits == 3
MaxDate == 1

\* ---- program constants ----
Day == 1
None == 0
DatesRef == 1
PendingRef == 2
repo_path == "repo"

Refs == 1..4
DateSet == 0..MaxDate
ExitSet == {0, 1}
Names == {"0a1b2c3d.sh", "4e5f6a7b.sh"}
Callbacks == {"identity", "add_one_day", "mirror", "drop_last", "append_last"}
Modes == {0, 1, 2}
IoOutcomes == {"ok", "open_fails", "write_fails"}

VARIABLES heap, dates, hashes, dates_mod, fs, last, dates0, hashes0, modified, applied

vars == <<heap, dates, hashes, dates_mod, fs, last, dates0, hashes0, modified, applied>>

\* ---- helpers ----
Min(a, b) == IF a <= b THEN a ELSE b

Range(s) == {s[i] : i \in DOMAIN s}

\* the commits of the branch as the repository hands them over, newest first
Commits(n, ds) == [i \in 1..n |-> [hexsha |-> 100 + (n + 1 - i), committed_date |-> ds[n + 1 - i]]]

\* reversed(self._commits)
Reversed(s) == [i \in 1..Len(s) |-> s[Len(s) + 1 - i]]

\* ---- the heap of list objects ----
\* the smallest reference not in use
NewRef(used) == CHOOSE r \in Refs : r \notin used /\ \A q \in Refs : q \notin used => r <= q

\* lst[:] : a new list object with the same elements
CopyList(h, ref, fresh) == [heap |-> (fresh :> h[ref]) @@ h, ref |-> fresh]

\* list.sort(): ascending, in place (insertion of each element in turn)
RECURSIVE InsertSorted(_, _)
InsertSorted(s, x) ==
  IF s = <<>> THEN <<x>>
  ELSE IF x < s[Len(s)] THEN Append(InsertSorted(SubSeq(s, 1, Len(s) - 1), x), s[Len(s)])
  ELSE Append(s, x)

\* a sort that leaves the list as it is
SortListSkipped(s) == s

RECURSIVE SortList(_)
SortList(s) == IF s = <<>> THEN <<>> ELSE InsertSorted(SortList(SubSeq(s, 1, Len(s) - 1)), s[Len(s)])

\* ---- the callbacks handed to modify_dates ----
\* the bundled callback: adds one day to every element of the list it is given
\* and returns that same list
add_one_day(h, arg) == [heap |-> [h EXCEPT ![arg] = [i \in DOMAIN h[arg] |-> h[arg][i] + Day]], ref |-> arg]

\* cb_modify_dates(arg): the call of a caller-supplied callback; the callback
\* either works on the list it is given and returns it, or returns a new list
CallCallback(cb, h, arg, fresh) ==
  CASE cb = "identity" -> [heap |-> h, ref |-> arg]
    [] cb = "add_one_day" -> add_one_day(h, arg)
    [] cb = "mirror" -> [heap |-> (fresh :> [i \in DOMAIN h[arg] |-> MaxDate - h[arg][i]]) @@ h, ref |-> fresh]
    [] cb = "drop_last" -> [heap |-> (fresh :> SubSeq(h[arg], 1, Len(h[arg]) - 1)) @@ h, ref |-> fresh]
    [] cb = "append_last" -> [heap |-> [h EXCEPT ![arg] = Append(h[arg], h[arg][Len(h[arg])])], ref |-> arg]

\* ---- the record of the last call ----
NoCall == [op |-> "init", ret |-> "None", exc |-> "none", cb |-> "none", sort |-> FALSE,
           cbOut |-> <<>>, mode |-> 0, built |-> <<>>, created |-> {}, execs |-> <<>>,
           out |-> <<>>, appliedBefore |-> FALSE,
           otherBefore |-> FALSE]

\* ---- __init__ ----
\* a pending list that starts out as the loaded timestamps themselves
InitialDatesModAliased == DatesRef

InitialDatesMod == None

Init ==
  \E n \in 1..MaxCommits : \E ds \in [1..n -> DateSet] :
    LET commits == Commits(n, ds) IN
      /\ dates = DatesRef
      /\ heap = (DatesRef :> [i \in 1..n |-> Reversed(commits)[i].committed_date])
      /\ hashes = [i \in 1..n |-> Reversed(commits)[i].hexsha]
      /\ dates_mod = InitialDatesMod
      /\ fs = <<>>
      /\ last = NoCall
      /\ dates0 = ds
      /\ hashes0 = [i \in 1..n |-> 100 + i]
      /\ modified = FALSE
      /\ applied = FALSE

\* `if self._dates_mod`: neither None nor an empty list
HasPending == dates_mod # None /\ heap[dates_mod] # <<>>

\* the list objects the object still refers to once dm is its pending list;
\* a pending list that is an object of its own is kept at PendingRef
Live(h, dm) == IF dm = dates THEN (dates :> h[dates]) ELSE (dates :> h[dates]) @@ (PendingRef :> h[dm])

\* ---- modify_dates ----
\* the callback is handed self._dates itself, not a copy
ModifyDatesArgAliased(h, fresh) == [heap |-> h, ref |-> dates]

\* the callback is handed a copy of the pending list once there is one
ModifyDatesArgFromPending(h, fresh) == CopyList(h, IF dates_mod # None THEN dates_mod ELSE dates, fresh)

\* self._dates[:], the argument of the callback
ModifyDatesArg(h, fresh) == CopyList(h, dates, fresh)

ModifyDates(cb, sort) ==
  LET used0 == {dates} \cup ({dates_mod} \ {None})
      a == ModifyDatesArg(heap, NewRef(used0))
      r == CallCallback(cb, a.heap, a.ref, NewRef(used0 \cup {a.ref}))
      h2 == IF sort THEN [r.heap EXCEPT ![r.ref] = SortList(r.heap[r.ref])] ELSE r.heap
  IN /\ dates_mod' = IF r.ref = dates THEN dates ELSE PendingRef
     /\ heap' = Live(h2, r.ref)
     /\ last' = [NoCall EXCEPT !.op = "modify_dates", !.cb = cb, !.sort = sort,
                               !.cbOut = r.heap[r.ref], !.appliedBefore = applied,
                               !.otherBefore = (HasPending /\ heap[dates_mod] # heap[dates])]
     /\ modified' = TRUE
     /\ applied' = FALSE
     /\ UNCHANGED <<dates, hashes, fs, dates0, hashes0>>

\* ---- print_mod_timestamps ----
\* f"{date} ({date.strftime('%A')})": the date and its day of the week
GetDateStr(date) == [date |-> date, weekday |-> date % 7]

PrintModTimestamps ==
  /\ last' = [NoCall EXCEPT !.op = "print_mod_timestamps",
                            !.ret = IF HasPending THEN "True" ELSE "False",
                            !.out = IF HasPending
                                    THEN [i \in DOMAIN heap[dates_mod] |-> <<i, GetDateStr(heap[dates_mod][i])>>]
                                    ELSE <<>>]
  /\ UNCHANGED <<heap, dates, hashes, dates_mod, fs, dates0, hashes0, modified, applied>>

\* ---- the rewrite instructions ----
\* zip(a, b): pairs up to the shorter of the two
Zip(a, b) == [i \in 1..Min(Len(a), Len(b)) |-> <<a[i], b[i]>>]

\* the UTC offset of the local time zone on a date (it alternates, as with
\* daylight saving time)
LocalUtcOffset(date) == date % 2

\* date.astimezone() as text: the naive timestamp, read as local time, with
\* the local UTC offset of that date
AsTimezone(date) == [naive |-> date, utcoffset |-> LocalUtcOffset(date)]

\* one `if [ $GIT_COMMIT = hash ] ; then export ... export ...` clause
Clause(i, date, hash_id) ==
  [kw |-> IF i # 1 THEN "elif" ELSE "if", commit |-> hash_id,
   author_date |-> AsTimezone(date), committer_date |-> AsTimezone(date)]

\* the loop of _get_cmd_str_all_commits over zip(self._dates_mod, self._hashes)
RECURSIVE AppendClauses(_, _, _)
AppendClauses(clauses, pairs, i) ==
  IF i > Len(pairs) THEN clauses
  ELSE AppendClauses(Append(clauses, Clause(i, pairs[i][1], pairs[i][2])), pairs, i + 1)

\* timestamps paired with the identifiers in the repository's order, newest first
ClausePairsNewestFirst == Zip(heap[dates_mod], Reversed(hashes))

ClausePairs == Zip(heap[dates_mod], hashes)

GetCmdStrAllCommits ==
  [cd |-> repo_path, tool |-> "git filter-branch -f --env-filter",
   clauses |-> AppendClauses(<<>>, ClausePairs, 1), closer |-> "fi"]

GetCmdStrSingleCommit(hash_id, date) ==
  [cd |-> repo_path, tool |-> "git filter-branch -f --env-filter",
   clauses |-> <<Clause(1, date, hash_id)>>, closer |-> "fi"]

\* ---- the file system of the working directory ----
EmptyFile == [cd |-> "", tool |-> "", clauses |-> <<>>, closer |-> ""]

\* open(fn, "w"): creates the file, or empties the one of that name
OpenForWriting(files, fn) == (fn :> EmptyFile) @@ files

WriteFile(files, fn, text) == [files EXCEPT ![fn] = text]

\* os.remove(fn)
RemoveFile(files, fn) == [f \in DOMAIN files \ {fn} |-> files[f]]

\* ---- update ----
\* the exit statuses of k external executions in a row: all succeed or all fail
StatusSeqs(k) == {[i \in 1..k |-> s] : s \in ExitSet}

UpdateRecord(mode) ==
  [NoCall EXCEPT !.op = "update", !.mode = mode, !.appliedBefore = applied]

\* mode 0: one command, and one external execution, per commit
UpdateSingleCommits(mode) ==
  LET pairs == Zip(heap[dates_mod], hashes) IN
  \E st \in StatusSeqs(Len(pairs)) :
    LET cmds == [i \in 1..Len(pairs) |-> GetCmdStrSingleCommit(pairs[i][2], pairs[i][1])] IN
      /\ last' = [UpdateRecord(mode) EXCEPT !.ret = "True", !.built = cmds,
                    !.execs = [i \in 1..Len(pairs) |-> [cmd |-> cmds[i], status |-> st[i]]]]
      /\ applied' = TRUE
      /\ fs' = fs

\* mode 1: one command for all commits, written to a file that bash executes
UpdateAllCommits(mode) ==
  \E fn \in Names, io \in IoOutcomes, st \in ExitSet :
    LET cmd == GetCmdStrAllCommits
        opened == OpenForWriting(fs, fn)
        written == WriteFile(opened, fn, cmd)
    IN CASE io = "open_fails" ->
              /\ last' = [UpdateRecord(mode) EXCEPT !.exc = "OSError", !.built = <<cmd>>]
              /\ UNCHANGED <<fs, applied>>
         [] io = "write_fails" ->
              /\ last' = [UpdateRecord(mode) EXCEPT !.exc = "OSError", !.built = <<cmd>>,
                                                    !.created = {fn}]
              /\ fs' = opened
              /\ UNCHANGED applied
         [] io = "ok" ->
              /\ last' = [UpdateRecord(mode) EXCEPT !.ret = "True", !.built = <<cmd>>,
                            !.created = {fn},
                            !.execs = <<[cmd |-> written[fn], status |-> st]>>]
              /\ fs' = RemoveFile(written, fn)
              /\ applied' = TRUE

Update(mode) ==
  /\ IF HasPending
     THEN CASE mode = 0 -> UpdateSingleCommits(mode)
            [] mode = 1 -> UpdateAllCommits(mode)
            [] OTHER ->
                 /\ last' = [UpdateRecord(mode) EXCEPT !.ret = "True"]
                 /\ applied' = TRUE
                 /\ fs' = fs
     ELSE /\ last' = [UpdateRecord(mode) EXCEPT !.ret = "False"]
          /\ UNCHANGED <<fs, applied>>
  /\ UNCHANGED <<heap, dates, hashes, dates_mod, dates0, hashes0, modified>>

Next ==
  \/ \E cb \in Callbacks, sort \in BOOLEAN : ModifyDates(cb, sort)
  \/ PrintModTimestamps
  \/ \E mode \in Modes : Update(mode)

Spec == Init /\ [][Next]_vars

\* ---- properties ----
Pending == IF dates_mod = None THEN <<>> ELSE heap[dates_mod]

IsSorted(s) == \A i \in 1..(Len(s) - 1) : s[i] <= s[i + 1]

CountOf(s, x) == Cardinality({i \in DOMAIN s : s[i] = x})

IsPermutation(s, t) == Len(s) = Len(t) /\ \A x \in Range(s) \cup Range(t) : CountOf(s, x) = CountOf(t, x)

\* the callback applied to the timestamps loaded at construction
OnLoaded(cb) ==
  LET r == CallCallback(cb, (DatesRef :> dates0 @@ PendingRef :> dates0), PendingRef, 3) IN r.heap[r.ref]

\* C1: a callback whose result has another length than the history makes
\* modify_dates fail with TransformationLengthMismatchError, its result is not
\* stored as the pending sequence, and no update builds or executes an
\* instruction from a pending sequence of another length than the history.
C1_LengthMismatchRejected ==
  /\ (last.op = "modify_dates" /\ Len(last.cbOut) # Len(hashes))
       => last.exc = "TransformationLengthMismatchError"
  /\ Len(Pending) \in {0, Len(hashes)}
  /\ (last.op = "update" /\ Len(Pending) # Len(hashes)) => (last.built = <<>> /\ last.execs = <<>>)

\* C2: after an update that returned true nothing is pending: the next update
\* without a modify_dates in between returns false and executes nothing, and
\* print_mod_timestamps returns false.
C2_UpdateLeavesNoPending ==
  /\ (last.op = "update" /\ last.ret = "True") => ~HasPending
  /\ (last.op = "update" /\ last.appliedBefore) => (last.ret = "False" /\ last.execs = <<>>)
  /\ (last.op = "print_mod_timestamps" /\ applied) => last.ret = "False"

\* C3: an update whose external execution ends with a non-zero status fails
\* with RewriteExecutionError and does not return true.
C3_NonZeroStatusRaises ==
  (last.op = "update" /\ \E i \in DOMAIN last.execs : last.execs[i].status # 0)
    => (last.exc = "RewriteExecutionError" /\ last.ret # "True")

\* C4: the instruction update builds in mode 1 from a pending sequence as long
\* as the history has one clause per commit, in history order; clause i tests
\* hashes[i] and sets author date and committer date to dates_mod[i].
C4_PositionalClauses ==
  (last.op = "update" /\ last.mode = 1 /\ last.built # <<>> /\ Len(Pending) = Len(hashes0))
    => LET cl == last.built[1].clauses IN
         /\ Len(last.built) = 1
         /\ Len(cl) = Len(hashes0)
         /\ \A i \in DOMAIN cl :
              /\ cl[i].commit = hashes0[i]
              /\ cl[i].author_date.naive = Pending[i]
              /\ cl[i].committer_date.naive = Pending[i]
              /\ cl[i].kw = (IF i = 1 THEN "if" ELSE "elif")
         /\ last.built[1].closer = "fi"

C4_Witness ==
  /\ last.op = "update" /\ last.mode = 1 /\ last.ret = "True"
  /\ Len(hashes) = 3 /\ Len(Pending) = 3 /\ Pending[1] # Pending[3]
  /\ Len(last.built[1].clauses) = 3

\* C5: every update that returns true issues exactly one external execution,
\* of one instruction for all commits, whatever the mode.
C5_OneExecutionAnyMode ==
  (last.op = "update" /\ last.ret = "True")
    => /\ Len(last.execs) = 1
       /\ Len(last.execs[1].cmd.clauses) = Len(hashes)

\* C6: a temporary file that update created no longer exists when update
\* ends, whether it returned or raised.
C6_TempFileRemoved ==
  (last.op = "update") => \A fn \in last.created : fn \notin DOMAIN fs

\* C7: update before any modify_dates returns false, raises nothing, builds
\* no instruction, creates no file, executes nothing and leaves nothing
\* pending.
C7_UpdateBeforeModify ==
  (last.op = "update" /\ ~modified)
    => /\ last.ret = "False" /\ last.exc = "none"
       /\ last.built = <<>> /\ last.created = {} /\ last.execs = <<>>
       /\ fs = <<>>
       /\ dates_mod = None

C7_Witness == last.op = "update" /\ ~modified /\ last.mode = 1 /\ last.ret = "False"

\* C8: after modify_dates with sort set and a callback result as long as the
\* history, the pending sequence is non-decreasing and a permutation of the
\* callback's result.
C8_SortedPermutation ==
  (last.op = "modify_dates" /\ last.sort /\ Len(last.cbOut) = Len(hashes))
    => (IsSorted(Pending) /\ IsPermutation(Pending, last.cbOut))

C8_Witness ==
  /\ last.op = "modify_dates" /\ last.sort /\ last.cb = "mirror"
  /\ Len(last.cbOut) = 3 /\ ~IsSorted(last.cbOut) /\ IsSorted(Pending)

\* C9: the loaded timestamps and identifiers never change, whatever the
\* callbacks do to the list they are handed.
C9_OriginalsUntouched == heap[dates] = dates0 /\ hashes = hashes0

C9_Witness ==
  /\ last.op = "modify_dates" /\ last.cb = "add_one_day" /\ last.otherBefore
  /\ Pending = [i \in DOMAIN dates0 |-> dates0[i] + Day]
  /\ heap[dates] = dates0

\* C10: after any modify_dates the pending sequence is the callback applied
\* to the loaded timestamps (sorted if sort is set), whatever was pending
\* before and whether or not an update ran in between.
C10_NoCompounding ==
  (last.op = "modify_dates")
    => Pending = (IF last.sort THEN SortList(OnLoaded(last.cb)) ELSE OnLoaded(last.cb))

C10_Witness ==
  /\ last.op = "modify_dates" /\ last.cb = "add_one_day" /\ last.otherBefore /\ last.appliedBefore
  /\ Pending = [i \in DOMAIN dates0 |-> dates0[i] + Day]

====
